---- MODULE Spec2Model ----
(***************************************************************************)
(* Model of the PDF parsing pipeline of arxiv-paper-curator:               *)
(*   src/src/services/pdf_parser/parser.py    PDFParserService             *)
(*   src/src/services/pdf_parser/deepseek.py  DeepSeekParser               *)
(* A text is a sequence of one-character strings, so that strip, split and *)
(* the header regular expression are computed character by character.      *)
(***************************************************************************)
EXTENDS Integers, Sequences, FiniteSets, TLC

\* ------------------------------------------------------------------ bounds
\* longest text over Alphabet handed to the segmenter in SegSpec, and the
\* largest number of lines of a text built from SampleLines
MaxLen == 6
MaxLines == 4
\* round trip (RoundSpec): number of known sections, title and content length
MaxKnown == 2
MaxTitleLen == 2
MaxContentLen == 4

\* ------------------------------------------------------------------ text
\* the characters texts are built of: a header marker, a blank, a letter and
\* the line separator
Alphabet == {"#", " ", "a", "\n"}

\* str.isspace for the characters of Alphabet
IsSpace(ch) == ch \in {" ", "\n"}

RECURSIVE TextsOfLen(_)
TextsOfLen(n) ==
    IF n = 0 THEN {<<>>}
    ELSE {Append(t, ch) : t \in TextsOfLen(n - 1), ch \in Alphabet}

TextsUpTo(n) == UNION {TextsOfLen(k) : k \in 0..n}

\* number of leading characters of s that satisfy str.isspace
RECURSIVE LeadingSpaces(_)
LeadingSpaces(s) ==
    IF s = <<>> \/ ~IsSpace(Head(s)) THEN 0 ELSE 1 + LeadingSpaces(Tail(s))

RECURSIVE TrailingSpaces(_)
TrailingSpaces(s) ==
    IF s = <<>> \/ ~IsSpace(s[Len(s)]) THEN 0
    ELSE 1 + TrailingSpaces(SubSeq(s, 1, Len(s) - 1))

\* str.strip()
Strip(s) ==
    IF LeadingSpaces(s) = Len(s) THEN <<>>
    ELSE SubSeq(s, LeadingSpaces(s) + 1, Len(s) - TrailingSpaces(s))

\* str.split('\n'): always at least one line, the separators removed
RECURSIVE SplitFrom(_, _)
SplitFrom(s, cur) ==
    IF s = <<>> THEN <<cur>>
    ELSE IF Head(s) = "\n" THEN <<cur>> \o SplitFrom(Tail(s), <<>>)
    ELSE SplitFrom(Tail(s), Append(cur, Head(s)))

SplitLines(s) == SplitFrom(s, <<>>)

\* '\n'.join / '\n\n'.join
RECURSIVE Join(_, _)
Join(parts, sep) ==
    IF parts = <<>> THEN <<>>
    ELSE IF Len(parts) = 1 THEN parts[1]
    ELSE parts[1] \o sep \o Join(Tail(parts), sep)

RECURSIVE LeadingHashes(_)
LeadingHashes(s) ==
    IF s = <<>> \/ Head(s) # "#" THEN 0 ELSE 1 + LeadingHashes(Tail(s))

\* re.match(r'^(#{1,6})\s+(.+)$', line) on one line (no '\n' in it):
\* between one and six markers, then at least one blank, then at least one
\* character.  A seventh marker defeats the match: \s+ cannot start on it.
HeaderHit(line) ==
    LET k == LeadingHashes(line)
    IN  /\ k >= 1
        /\ k <= 6
        /\ Len(line) >= k + 2
        /\ IsSpace(line[k + 1])

\* group(1) has HeaderLevel characters
HeaderLevel(line) == LeadingHashes(line)

\* group(2): \s+ is greedy but leaves one character to (.+)
HeaderGroup2(line) ==
    LET k    == LeadingHashes(line)
        rest == SubSeq(line, k + 1, Len(line))
        w    == LeadingSpaces(rest)
    IN  IF w = Len(rest) THEN SubSeq(rest, Len(rest), Len(rest))
        ELSE SubSeq(rest, w + 1, Len(rest))

\* ------------------------------------------------------------------ segmenter
NoLevel == 0

DefaultTitle == <<"C", "o", "n", "t", "e", "n", "t">>

PaperSection(t, c, l) == [title |-> t, content |-> c, level |-> l]

\* a slip: the section closed by a later header keeps no level of its own
\* and takes the depth of the header that closes it
EmitLevelNext(cur, line) == HeaderLevel(line)

\* level given to the section emitted when a later header is met (level=1)
EmitLevel(cur, line) == 1

\* a slip: the final section is emitted without the non-blank test
FinalGuardAlways(cur) == TRUE

\* the guard of the final emission: current_section["content"].strip()
FinalGuard(cur) == Strip(cur.content) # <<>>

\* a slip: blank lines are accumulated too
KeepLineAlways(line) == TRUE

\* the guard of accumulation: line.strip()
KeepLine(line) == Strip(line) # <<>>

\* a slip: the accumulated content is emitted as it is, final newline included
EmitContentRaw(cur) == cur.content

\* content of an emitted section: current_section["content"].strip()
EmitContent(cur) == Strip(cur.content)

\* a slip: the section in progress is emitted at every header
HeaderGuardAlways(cur) == TRUE

\* the guard of the emission at a header: current_section["content"].strip()
HeaderGuard(cur) == Strip(cur.content) # <<>>

\* a slip: the section is put in front, sections.insert(0, ...)
AddSectionFirst(secs, s) == <<s>> \o secs

\* sections.append(PaperSection(...))
AddSection(secs, s) == Append(secs, s)

\* a slip: the line replaces the content, = in place of +=
AccumulateLast(content, line) == line \o <<"\n">>

\* current_section["content"] += line + "\n"
Accumulate(content, line) == content \o line \o <<"\n">>

\* one iteration of the loop over lines; st = [sections, cur]
SegStep(st, line) ==
    IF HeaderHit(line)
    THEN [sections |->
              IF HeaderGuard(st.cur)
              THEN AddSection(st.sections,
                              PaperSection(st.cur.title, EmitContent(st.cur),
                                           EmitLevel(st.cur, line)))
              ELSE st.sections,
          cur |-> [title |-> Strip(HeaderGroup2(line)), content |-> <<>>,
                   level |-> HeaderLevel(line)]]
    ELSE [sections |-> st.sections,
          cur |-> IF KeepLine(line)
                  THEN [st.cur EXCEPT !.content = Accumulate(@, line)]
                  ELSE st.cur]

RECURSIVE SegLoop(_, _)
SegLoop(st, lines) ==
    IF lines = <<>> THEN st ELSE SegLoop(SegStep(st, Head(lines)), Tail(lines))

\* DeepSeekParser._parse_markdown_to_sections
ParseMarkdownToSections(markdown_text) ==
    LET st0 == [sections |-> <<>>,
                cur |-> [title |-> DefaultTitle, content |-> <<>>,
                         level |-> NoLevel]]
        st  == SegLoop(st0, SplitLines(markdown_text))
    IN  IF FinalGuard(st.cur)
        THEN AddSection(st.sections,
                        PaperSection(st.cur.title, EmitContent(st.cur),
                                     IF st.cur.level = NoLevel THEN 1
                                     ELSE st.cur.level))
        ELSE st.sections

\* ------------------------------------------------------------------ inputs
\* lines of the kinds the segmenter tells apart: blank, content, near-headers
\* and headers of several depths
SampleLines ==
    { <<>>,
      <<" ">>,
      <<"a">>,
      <<"b">>,
      <<" ", "a", " ">>,
      <<"#", "a">>,
      <<"#", " ", "a">>,
      <<"#", "#", " ", "b">>,
      <<"#", " ", " ">>,
      <<"#", "#", "#", "#", "#", "#", " ", "a">>,
      <<"#", "#", "#", "#", "#", "#", "#", " ", "a">> }

\* the texts of at most MaxLines lines of SampleLines
IsSampleText(text) ==
    \E n \in 1..MaxLines :
        \E ls \in [1..n -> SampleLines] : text = Join(ls, <<"\n">>)

\* the sections a caller may hold before reconstructing a text from them:
\* every short title and content, and a few chosen to be put in sequence
KnownSections ==
    { PaperSection(t, c, l) :
        t \in TextsUpTo(MaxTitleLen), c \in TextsUpTo(MaxContentLen),
        l \in {1, 2} }

SampleSections ==
    { PaperSection(t, c, l) :
        t \in { <<"a">>, <<"#">>, <<>>, <<"a", " ">> },
        c \in { <<"a">>, <<"#">>, <<"a", "\n", "b">>, <<>>, <<"a", "\n">>,
                <<" ", "a">>, <<"a", "\n", "\n", "b">>, <<"#", " ", "a">> },
        l \in {1, 2} }

\* the known sequences: one section of KnownSections, or at most MaxKnown
\* sections of SampleSections
IsKnown(ks) ==
    \/ \E k \in KnownSections : ks = <<k>>
    \/ \E n \in 0..MaxKnown : ks \in [1..n -> SampleSections]

\* the text of spec section 8: for each section in order,
\* "# " + title + "\n" + content, followed by `after`
RECURSIVE Rebuild(_, _)
Rebuild(ks, after) ==
    IF ks = <<>> THEN <<>>
    ELSE <<"#", " ">> \o Head(ks).title \o <<"\n">> \o Head(ks).content
             \o after \o Rebuild(Tail(ks), after)

\* ------------------------------------------------------------------ words
\* A message or a path is a sequence of words; str.lower() works word by
\* word and `phrase in message` is the presence of the phrase among the
\* lowered words.
LowerWord(w) ==
    CASE w = "DeepSeek"          -> "deepseek"
      [] w = "Too Large"         -> "too large"
      [] w = "Value too large for defined data type"
                                 -> "value too large for defined data type"
      [] w = "PDF has "          -> "pdf has "
      [] w = "PDF file "         -> "pdf file "
      [] w = "PDF file is empty: " -> "pdf file is empty: "
      [] w = "File does not have PDF header: "
                                 -> "file does not have pdf header: "
      [] w = "Error validating PDF " -> "error validating pdf "
      [] w = "Permission denied" -> "permission denied"
      [] w = "No such file or directory" -> "no such file or directory"
      [] OTHER                   -> w

\* the lowered words of which the phrase is a substring
WordsWith(phrase) ==
    IF phrase = "too large"
    THEN {"too large", "value too large for defined data type"}
    ELSE {phrase}

WordHas(w, phrase) == LowerWord(w) \in WordsWith(phrase)

MsgHas(msg, phrase) == \E i \in 1..Len(msg) : WordHas(msg[i], phrase)

\* ------------------------------------------------------------------ documents
MiB == 1024 * 1024

\* most pages a document has
MaxDocPages == 3
\* most parse calls made on one service
MaxCalls == 2

CallerIds == {1, 2}

ParserTypeArgs == {"deepseek", "DeepSeek", "docling", "tesseract"}
MaxPagesArgs == {0, 2}
MaxFileSizeMbArgs == {0, 1}
ResolutionArgs == {"base", "huge"}

Paths ==
    { <<"paper.pdf">>, <<"Too Large", "/a.pdf">>, <<"too many pages", ".pdf">> }

\* texts of the errors the operating system and the PDF reader raise
Causes ==
    { <<"Permission denied">>, <<"Value too large for defined data type">> }

Sizes == {0, 100, MiB + 1}

\* a file on disk: whether it exists, its size, whether it starts with
\* "%PDF-", the page count the structural reader reports, and the call that
\* fails on it ("none", "stat", "open", "pdfium") with the error's text
Docs ==
    { d \in [exists : BOOLEAN, size : Sizes, magic : BOOLEAN,
             pages : 0..MaxDocPages, path : Paths,
             fault : {"none", "stat", "open", "pdfium"},
             cause : Causes \cup {<<>>}] :
        /\ (d.size = 0 => ~d.magic)
        /\ (d.fault = "none" <=> d.cause = <<>>)
        /\ (~d.exists =>
               d.size = 0 /\ d.pages = 0 /\ d.fault = "none") }

NoDoc ==
    [exists |-> FALSE, size |-> 0, magic |-> FALSE, pages |-> 0,
     path |-> <<>>, fault |-> "none", cause |-> <<>>]

\* what the model returns for one page image
PageTexts ==
    { <<>>, <<" ">>, <<"a">>, <<"#", " ", "a", "\n", "b">> }

\* ------------------------------------------------------------------ validation
resolution_config == {"tiny", "small", "base", "large"}

\* a slip: the signature is read before the size is compared with the limit
ValidatePdfHeaderFirst(d, max_file_size_bytes, max_pages) ==
    IF ~d.exists \/ d.fault = "stat"
    THEN [kind |-> "io",
          msg |-> <<"Error validating PDF ">> \o d.path \o <<": ">>
                    \o (IF d.exists THEN d.cause
                        ELSE <<"No such file or directory">>),
          checks |-> <<"stat">>]
    ELSE IF d.size = 0
    THEN [kind |-> "empty",
          msg |-> <<"PDF file is empty: ">> \o d.path,
          checks |-> <<"stat">>]
    ELSE IF d.fault = "open"
    THEN [kind |-> "io",
          msg |-> <<"Error validating PDF ">> \o d.path \o <<": ">>
                    \o d.cause,
          checks |-> <<"stat", "header">>]
    ELSE IF ~d.magic
    THEN [kind |-> "header",
          msg |-> <<"File does not have PDF header: ">> \o d.path,
          checks |-> <<"stat", "header">>]
    ELSE IF d.size > max_file_size_bytes
    THEN [kind |-> "size",
          msg |-> <<"PDF file ", "too large", ": size > limit">>,
          checks |-> <<"stat", "header", "size">>]
    ELSE IF d.fault = "pdfium"
    THEN [kind |-> "io",
          msg |-> <<"Error validating PDF ">> \o d.path \o <<": ">>
                    \o d.cause,
          checks |-> <<"stat", "header", "size", "open_pdf">>]
    ELSE IF d.pages > max_pages
    THEN [kind |-> "pages",
          msg |-> <<"PDF has ", "too many pages", ": pages > limit">>,
          checks |-> <<"stat", "header", "size", "open_pdf", "pages">>]
    ELSE [kind |-> "ok", msg |-> <<>>,
          checks |-> <<"stat", "header", "size", "open_pdf", "pages">>]

\* DeepSeekParser._validate_pdf: the check that fails ("ok" when none does),
\* the message of the PDFValidationError raised, and the checks performed
ValidatePdf(d, max_file_size_bytes, max_pages) ==
    IF ~d.exists \/ d.fault = "stat"
    THEN [kind |-> "io",
          msg |-> <<"Error validating PDF ">> \o d.path \o <<": ">>
                    \o (IF d.exists THEN d.cause
                        ELSE <<"No such file or directory">>),
          checks |-> <<"stat">>]
    ELSE IF d.size = 0
    THEN [kind |-> "empty",
          msg |-> <<"PDF file is empty: ">> \o d.path,
          checks |-> <<"stat">>]
    ELSE IF d.size > max_file_size_bytes
    THEN [kind |-> "size",
          msg |-> <<"PDF file ", "too large", ": size > limit">>,
          checks |-> <<"stat", "size">>]
    ELSE IF d.fault = "open"
    THEN [kind |-> "io",
          msg |-> <<"Error validating PDF ">> \o d.path \o <<": ">>
                    \o d.cause,
          checks |-> <<"stat", "size", "header">>]
    ELSE IF ~d.magic
    THEN [kind |-> "header",
          msg |-> <<"File does not have PDF header: ">> \o d.path,
          checks |-> <<"stat", "size", "header">>]
    ELSE IF d.fault = "pdfium"
    THEN [kind |-> "io",
          msg |-> <<"Error validating PDF ">> \o d.path \o <<": ">>
                    \o d.cause,
          checks |-> <<"stat", "size", "header", "open_pdf">>]
    ELSE IF d.pages > max_pages
    THEN [kind |-> "pages",
          msg |-> <<"PDF has ", "too many pages", ": pages > limit">>,
          checks |-> <<"stat", "size", "header", "open_pdf", "pages">>]
    ELSE [kind |-> "ok", msg |-> <<>>,
          checks |-> <<"stat", "size", "header", "open_pdf", "pages">>]

\* a slip: a PDFValidationError is never turned into a soft skip
IsSoftSkipNever(msg) == FALSE

\* the test of the PDFValidationError handler of DeepSeekParser.parse_pdf
IsSoftSkip(msg) == MsgHas(msg, "too large") \/ MsgHas(msg, "too many pages")

\* ------------------------------------------------------------------ outcomes
NoContent ==
    [sections |-> <<>>, raw_text |-> <<>>, parser_used |-> "none",
     pages_processed |-> 0]

\* the end of a call: kind is "pending", "None", "content" or "raise"
Pending == [kind |-> "pending", exc |-> "", msg |-> <<>>, content |-> NoContent]
ReturnNone == [kind |-> "None", exc |-> "", msg |-> <<>>, content |-> NoContent]
Return(content) ==
    [kind |-> "content", exc |-> "", msg |-> <<>>, content |-> content]
Raise(exc, msg) ==
    [kind |-> "raise", exc |-> exc, msg |-> msg, content |-> NoContent]

\* a slip: the service hands the backend's None on to its caller
ServiceOutcomeNone(r, parser_type, d) == r

\* PDFParserService.parse_pdf after the backend ended with r
ServiceOutcome(r, parser_type, d) ==
    IF r.kind = "content" THEN r
    ELSE IF r.kind = "None"
    THEN Raise("PDFParsingException",
               <<parser_type, " parsing returned no result for ">> \o d.path)
    ELSE IF r.exc \in {"PDFValidationError", "PDFParsingException"} THEN r
    ELSE Raise("PDFParsingException",
               <<parser_type, " parsing error for ">> \o d.path \o <<": ">>
                   \o r.msg)

\* a slip: the service does not look for the file
MustExistNever(d) == TRUE

\* the existence test of PDFParserService.parse_pdf: pdf_path.exists()
MustExist(d) == d.exists

\* a slip: the directory is removed on the success path only
NeedsCleanupOnSuccess(dir, files, r) ==
    dir # 0 /\ <<dir>> \in files /\ r.kind = "content"

\* the finally block of DeepSeekParser.parse_pdf:
\* temp_dir and temp_dir.exists()
NeedsCleanup(dir, files, r) == dir # 0 /\ <<dir>> \in files

\* ------------------------------------------------------------------ state
VARIABLES
    markdown_text,   \* the text handed to _parse_markdown_to_sections
    sections,        \* what it returned
    segpc,           \* "ready" before the call, "done" after it
    known,           \* RoundSpec: the sections the text was rebuilt from
    svc,             \* the PDFParserService and the parser it holds
    _model,          \* DeepSeekParser._model: "None" or the device it is on
    _tokenizer,      \* DeepSeekParser._tokenizer: "None" or "tokenizer"
    loads,           \* number of times the model was loaded
    callers,         \* the callers that use the service
    calls,           \* number of parse calls started
    pc,              \* where each caller's parse_pdf call stands
    via,             \* "service": PDFParserService.parse_pdf, "direct": the parser's
    doc,             \* the file each call is about
    temp_dir,        \* local temp_dir of DeepSeekParser.parse_pdf, 0 for None
    image_paths,     \* local image_paths: the page numbers rendered
    all_text,        \* local all_text
    ret,             \* how the backend's parse_pdf ended
    out,             \* how the call ended for the caller
    trace,           \* the steps the call went through
    fs,              \* what exists under the temporary area: <<dir>>, <<dir, page>>
    ndirs,           \* number of temporary directories made so far
    handles          \* PDF documents open in the structural reader

segvars == <<markdown_text, sections, segpc, known>>

objvars == <<svc, _model, _tokenizer, loads, callers, calls, fs, ndirs, handles>>

callvars == <<pc, via, doc, temp_dir, image_paths, all_text, ret, out, trace>>

vars == <<segvars, objvars, callvars>>

\* the segmenter's own variables when the pipeline runs
SegOff ==
    /\ markdown_text = <<>>
    /\ sections = <<>>
    /\ segpc = "off"
    /\ known = <<>>

\* parser is the class of the parser the service holds; given_type and
\* given_resolution are the constructor's arguments as they were passed
NoService ==
    [state |-> "unbuilt", parser_type |-> "", parser |-> "", max_pages |-> 0,
     max_file_size_bytes |-> 0, resolution |-> "", given_type |-> "",
     given_resolution |-> ""]

\* no service, no call
PipeOff(cs) ==
    /\ svc = NoService
    /\ _model = "None"
    /\ _tokenizer = "None"
    /\ loads = 0
    /\ callers = cs
    /\ calls = 0
    /\ pc = [c \in CallerIds |-> "idle"]
    /\ via = [c \in CallerIds |-> ""]
    /\ doc = [c \in CallerIds |-> NoDoc]
    /\ temp_dir = [c \in CallerIds |-> 0]
    /\ image_paths = [c \in CallerIds |-> <<>>]
    /\ all_text = [c \in CallerIds |-> <<>>]
    /\ ret = [c \in CallerIds |-> Pending]
    /\ out = [c \in CallerIds |-> Pending]
    /\ trace = [c \in CallerIds |-> <<>>]
    /\ fs = {}
    /\ ndirs = 0
    /\ handles = 0

\* ------------------------------------------------------------------ SegSpec
SegInit ==
    /\ \/ markdown_text \in TextsUpTo(MaxLen)
       \/ IsSampleText(markdown_text)
    /\ sections = <<>>
    /\ segpc = "ready"
    /\ known = <<>>
    /\ PipeOff({})

Segment ==
    /\ segpc = "ready"
    /\ sections' = ParseMarkdownToSections(markdown_text)
    /\ segpc' = "done"
    /\ UNCHANGED <<markdown_text, known, objvars, callvars>>

SegNext == Segment

SegSpec == SegInit /\ [][SegNext]_vars

\* ------------------------------------------------------------------ RoundSpec
RoundInit ==
    /\ IsKnown(known)
    /\ markdown_text \in {Rebuild(known, <<>>), Rebuild(known, <<"\n">>)}
    /\ sections = <<>>
    /\ segpc = "ready"
    /\ PipeOff({})

RoundSpec == RoundInit /\ [][SegNext]_vars

\* ------------------------------------------------------------------ Spec
Init == SegOff /\ PipeOff({1})

\* a slip: the resolution is looked up at the first inference only
DeepSeekInitUnchecked(max_pages, max_file_size_mb, resolution) ==
    [NoService EXCEPT !.state = "built", !.parser = "DeepSeekParser",
                      !.max_pages = max_pages,
                      !.max_file_size_bytes = max_file_size_mb * MiB,
                      !.resolution = resolution]

\* DeepSeekParser.__init__
DeepSeekInit(max_pages, max_file_size_mb, resolution) ==
    IF resolution \notin resolution_config
    THEN [NoService EXCEPT !.state = "failed"]
    ELSE [NoService EXCEPT !.state = "built", !.parser = "DeepSeekParser",
                           !.max_pages = max_pages,
                           !.max_file_size_bytes = max_file_size_mb * MiB,
                           !.resolution = resolution]

\* DoclingParser.__init__: keeps the two limits
DoclingInit(max_pages, max_file_size_mb) ==
    [NoService EXCEPT !.state = "built", !.parser = "DoclingParser",
                      !.max_pages = max_pages,
                      !.max_file_size_bytes = max_file_size_mb * MiB]

\* a slip: a name that is not known selects the default backend
NewServiceDefault(parser_type, max_pages, max_file_size_mb, deepseek_resolution) ==
    LET held == IF LowerWord(parser_type) = "deepseek"
                THEN DeepSeekInit(max_pages, max_file_size_mb,
                                  deepseek_resolution)
                ELSE DoclingInit(max_pages, max_file_size_mb)
    IN  [held EXCEPT !.parser_type =
                        IF held.state = "built" THEN LowerWord(parser_type)
                        ELSE "",
                     !.given_type = parser_type,
                     !.given_resolution = deepseek_resolution]

\* PDFParserService.__init__: self.parser_type = parser_type.lower(), then
\* the parser of that name is built
NewService(parser_type, max_pages, max_file_size_mb, deepseek_resolution) ==
    LET held == IF LowerWord(parser_type) = "deepseek"
                THEN DeepSeekInit(max_pages, max_file_size_mb,
                                  deepseek_resolution)
                ELSE IF LowerWord(parser_type) = "docling"
                THEN DoclingInit(max_pages, max_file_size_mb)
                ELSE [NoService EXCEPT !.state = "failed"]
    IN  [held EXCEPT !.parser_type =
                        IF held.state = "built" THEN LowerWord(parser_type)
                        ELSE "",
                     !.given_type = parser_type,
                     !.given_resolution = deepseek_resolution]

Construct ==
    /\ svc.state = "unbuilt"
    /\ \E pt \in ParserTypeArgs, mp \in MaxPagesArgs,
          mb \in MaxFileSizeMbArgs, res \in ResolutionArgs :
          svc' = NewService(pt, mp, mb, res)
    /\ UNCHANGED <<segvars, _model, _tokenizer, loads, callers, calls, fs,
                   ndirs, handles, callvars>>

\* whether pdf_path.exists() can raise: Path.exists() calls stat and lets
\* through every OSError that does not say the file is missing
ExistsRaises(d) == d.exists /\ d.fault = "stat"

\* PDFParserService.parse_pdf up to the call of the backend; the test of
\* pdf_path.exists() is outside the try block
SvcCall(c) ==
    /\ svc.state = "built"
    /\ pc[c] = "idle"
    /\ calls < MaxCalls
    /\ \E d \in Docs :
          /\ doc' = [doc EXCEPT ![c] = d]
          /\ \/ IF ~MustExist(d)
                THEN /\ out' = [out EXCEPT ![c] =
                           Raise("PDFValidationError",
                                 <<"PDF file not found: ">> \o d.path)]
                     /\ pc' = [pc EXCEPT ![c] = "done"]
                     /\ trace' = [trace EXCEPT ![c] = <<"exists">>]
                ELSE /\ out' = out
                     /\ pc' = [pc EXCEPT ![c] =
                           IF svc.parser = "DeepSeekParser" THEN "validate"
                           ELSE "docling"]
                     /\ trace' = [trace EXCEPT ![c] = <<"exists", "backend">>]
             \/ /\ ExistsRaises(d)
                /\ out' = [out EXCEPT ![c] = Raise("OSError", d.cause)]
                /\ pc' = [pc EXCEPT ![c] = "done"]
                /\ trace' = [trace EXCEPT ![c] = <<"exists">>]
    /\ via' = [via EXCEPT ![c] = "service"]
    /\ calls' = calls + 1
    /\ UNCHANGED <<segvars, svc, _model, _tokenizer, loads, callers, fs,
                   ndirs, handles, temp_dir, image_paths, all_text, ret>>

\* DeepSeekParser.parse_pdf called on the parser itself, on one of the given
\* documents
DirectCallOn(c, docs) ==
    /\ svc.state = "built"
    /\ svc.parser = "DeepSeekParser"
    /\ pc[c] = "idle"
    /\ calls < MaxCalls
    /\ \E d \in docs : doc' = [doc EXCEPT ![c] = d]
    /\ pc' = [pc EXCEPT ![c] = "validate"]
    /\ trace' = [trace EXCEPT ![c] = <<"backend">>]
    /\ via' = [via EXCEPT ![c] = "direct"]
    /\ calls' = calls + 1
    /\ UNCHANGED <<segvars, svc, _model, _tokenizer, loads, callers, fs,
                   ndirs, handles, temp_dir, image_paths, all_text, ret, out>>

DirectCall(c) == DirectCallOn(c, Docs)

\* a slip: a failed validation is logged and the call goes on
AfterValidateGoOn(kind) == "load"

\* where parse_pdf goes after self._validate_pdf: on to the model load, or,
\* the check having raised, through the handler to the finally block
AfterValidate(kind) == IF kind = "ok" THEN "load" ELSE "finally"

\* self._validate_pdf(pdf_path) and the PDFValidationError handler
Validate(c) ==
    /\ pc[c] = "validate"
    /\ LET v == ValidatePdf(doc[c], svc.max_file_size_bytes, svc.max_pages)
       IN  /\ trace' = [trace EXCEPT ![c] = @ \o <<"validate">> \o v.checks]
           /\ pc' = [pc EXCEPT ![c] = AfterValidate(v.kind)]
           /\ IF v.kind = "ok"
              THEN ret' = ret
              ELSE ret' = [ret EXCEPT ![c] =
                      IF IsSoftSkip(v.msg) THEN ReturnNone
                      ELSE Raise("PDFValidationError", v.msg)]
    /\ UNCHANGED <<segvars, objvars, via, doc, temp_dir, image_paths,
                   all_text, out>>

\* the handler `except Exception` of DeepSeekParser.parse_pdf
Wrapped(cause) ==
    Raise("PDFParsingException",
          <<"Failed to parse PDF with DeepSeek OCR: ">> \o cause)

\* a slip: the model is loaded by every call
NeedsLoadAlways(model) == TRUE

\* the test of _lazy_load_model: self._model is None
NeedsLoad(model) == model = "None"

\* self._lazy_load_model(): the test of self._model
LazyLoadModel(c) ==
    /\ pc[c] = "load"
    /\ pc' = [pc EXCEPT ![c] =
          IF NeedsLoad(_model) THEN "from_pretrained" ELSE "mkdtemp"]
    /\ trace' = [trace EXCEPT ![c] = Append(@, "lazy_load")]
    /\ UNCHANGED <<segvars, objvars, via, doc, temp_dir, image_paths,
                   all_text, ret, out>>

\* _lazy_load_model: the tokenizer, then the model, are read from the hub
\* and assigned; either read may raise
FromPretrained(c) ==
    /\ pc[c] = "from_pretrained"
    /\ \/ /\ _tokenizer' = "tokenizer"
          /\ _model' = "loaded"
          /\ loads' = loads + 1
          /\ pc' = [pc EXCEPT ![c] = "to_device"]
          /\ trace' = [trace EXCEPT ![c] = Append(@, "load")]
          /\ ret' = ret
       \/ /\ _tokenizer' \in {_tokenizer, "tokenizer"}
          /\ ret' = [ret EXCEPT ![c] = Wrapped(<<"model load failed">>)]
          /\ pc' = [pc EXCEPT ![c] = "finally"]
          /\ trace' = [trace EXCEPT ![c] = Append(@, "load_fails")]
          /\ UNCHANGED <<_model, loads>>
    /\ UNCHANGED <<segvars, svc, callers, calls, fs, ndirs, handles, via, doc,
                   temp_dir, image_paths, all_text, out>>

\* _lazy_load_model: self._model = self._model.eval().cuda() or, without a
\* GPU, .eval(); the move may raise and then leaves the model as it was read
ToDevice(c) ==
    /\ pc[c] = "to_device"
    /\ \/ /\ \E device \in {"cuda", "cpu"} : _model' = device
          /\ pc' = [pc EXCEPT ![c] = "mkdtemp"]
          /\ trace' = [trace EXCEPT ![c] = Append(@, "to_device")]
          /\ ret' = ret
       \/ /\ ret' = [ret EXCEPT ![c] = Wrapped(<<"device move failed">>)]
          /\ pc' = [pc EXCEPT ![c] = "finally"]
          /\ trace' = [trace EXCEPT ![c] = Append(@, "to_device_fails")]
          /\ _model' = _model
    /\ UNCHANGED <<segvars, svc, _tokenizer, loads, callers, calls, fs, ndirs,
                   handles, via, doc, temp_dir, image_paths, all_text, out>>

\* temp_dir = Path(tempfile.mkdtemp(prefix="deepseek_ocr_"))
Mkdtemp(c) ==
    /\ pc[c] = "mkdtemp"
    /\ ndirs' = ndirs + 1
    /\ temp_dir' = [temp_dir EXCEPT ![c] = ndirs + 1]
    /\ fs' = fs \cup {<<ndirs + 1>>}
    /\ pc' = [pc EXCEPT ![c] = "rasterize"]
    /\ trace' = [trace EXCEPT ![c] = Append(@, "mkdtemp")]
    /\ UNCHANGED <<segvars, svc, _model, _tokenizer, loads, callers, calls,
                   handles, via, doc, image_paths, all_text, ret, out>>

\* a slip: the loop stops one page short, range(num_pages - 1)
NumPagesShort(total_pages, max_pages) ==
    IF total_pages = 0 \/ max_pages <= 0 THEN 0
    ELSE IF total_pages <= max_pages THEN total_pages - 1
    ELSE max_pages - 1

\* num_pages = min(len(pdf_doc), self.max_pages)
NumPages(total_pages, max_pages) ==
    IF total_pages <= max_pages THEN total_pages ELSE max_pages

\* _extract_pages_as_images: pdf_doc = pdfium.PdfDocument(str(pdf_path))
RasterOpen(c) ==
    /\ pc[c] = "rasterize"
    /\ handles' = handles + 1
    /\ image_paths' = [image_paths EXCEPT ![c] = <<>>]
    /\ pc' = [pc EXCEPT ![c] = "render"]
    /\ trace' = [trace EXCEPT ![c] = Append(@, "rasterize")]
    /\ UNCHANGED <<segvars, svc, _model, _tokenizer, loads, callers, calls,
                   fs, ndirs, via, doc, temp_dir, all_text, ret, out>>

\* one iteration of the loop over range(num_pages): render and save a page,
\* or fail doing so
RenderPage(c) ==
    /\ pc[c] = "render"
    /\ Len(image_paths[c]) < NumPages(doc[c].pages, svc.max_pages)
    /\ LET page_num == Len(image_paths[c])
       IN  \/ /\ fs' = fs \cup {<<temp_dir[c], page_num>>}
              /\ image_paths' = [image_paths EXCEPT ![c] = Append(@, page_num)]
              /\ trace' = [trace EXCEPT ![c] = Append(@, "render")]
              /\ UNCHANGED <<pc, ret>>
           \/ /\ ret' = [ret EXCEPT ![c] = Wrapped(<<"render failed">>)]
              /\ pc' = [pc EXCEPT ![c] = "render_failed"]
              /\ trace' = [trace EXCEPT ![c] = Append(@, "render_fails")]
              /\ UNCHANGED <<fs, image_paths>>
    /\ UNCHANGED <<segvars, svc, _model, _tokenizer, loads, callers, calls,
                   ndirs, handles, via, doc, temp_dir, all_text, out>>

\* a slip: the document is closed after the loop, not in a finally block
ClosesPdfAfterLoop(failed) == ~failed

\* whether pdf_doc.close() runs when _extract_pages_as_images ends, a page
\* having failed or not: it is in the finally block
ClosesPdf(failed) == TRUE

\* the finally block of _extract_pages_as_images, its return, and the test
\* `if not image_paths` of parse_pdf
RasterClose(c) ==
    /\ \/ pc[c] = "render_failed"
       \/ /\ pc[c] = "render"
          /\ Len(image_paths[c]) >= NumPages(doc[c].pages, svc.max_pages)
    /\ handles' = IF ClosesPdf(pc[c] = "render_failed") THEN handles - 1
                  ELSE handles
    /\ IF pc[c] = "render_failed"
       THEN /\ pc' = [pc EXCEPT ![c] = "finally"]
            /\ image_paths' = [image_paths EXCEPT ![c] = <<>>]
            /\ ret' = ret
       ELSE IF image_paths[c] = <<>>
       THEN /\ pc' = [pc EXCEPT ![c] = "finally"]
            /\ ret' = [ret EXCEPT ![c] =
                  Wrapped(<<"No images extracted from PDF: ">> \o doc[c].path)]
            /\ image_paths' = image_paths
       ELSE /\ pc' = [pc EXCEPT ![c] = "infer"]
            /\ UNCHANGED <<ret, image_paths>>
    /\ trace' = [trace EXCEPT ![c] = Append(@, "close_pdf")]
    /\ UNCHANGED <<segvars, svc, _model, _tokenizer, loads, callers, calls,
                   fs, ndirs, via, doc, temp_dir, all_text, out>>

\* texts of the errors the inference call raises
InferErrors == { <<"o", "o", "m">> }

\* a slip: the handler returns the text of the error
TextOnInferErrorMessage(e) == e

\* the handler of _extract_text_from_image_file: return ""
TextOnInferError(e) == <<>>

\* _extract_text_from_image_file on the next image, up to the call of
\* self._model.infer: config = self.resolution_config[self.resolution] is
\* outside the try block, so a missing key ends parse_pdf
InferBegin(c) ==
    /\ pc[c] = "infer"
    /\ Len(all_text[c]) < Len(image_paths[c])
    /\ IF svc.resolution \in resolution_config
       THEN /\ pc' = [pc EXCEPT ![c] = "inferring"]
            /\ ret' = ret
       ELSE /\ pc' = [pc EXCEPT ![c] = "finally"]
            /\ ret' = [ret EXCEPT ![c] = Wrapped(<<"KeyError">>)]
    /\ UNCHANGED <<segvars, objvars, via, doc, temp_dir, image_paths,
                   all_text, out, trace>>

\* self._model.infer returns the page's text, or raises and the handler's
\* text is returned; parse_pdf appends it to all_text
InferPage(c) ==
    /\ pc[c] = "inferring"
    /\ \/ /\ \E result \in PageTexts :
                all_text' = [all_text EXCEPT ![c] = Append(@, result)]
          /\ trace' = [trace EXCEPT ![c] = Append(@, "infer")]
       \/ /\ \E e \in InferErrors :
                all_text' = [all_text EXCEPT ![c] =
                                Append(@, TextOnInferError(e))]
          /\ trace' = [trace EXCEPT ![c] = Append(@, "infer_fails")]
    /\ pc' = [pc EXCEPT ![c] = "infer"]
    /\ UNCHANGED <<segvars, objvars, via, doc, temp_dir, image_paths,
                   ret, out>>

\* a slip: the text is left out of the result
PdfContentNoText(secs, full_markdown, pages) ==
    [sections |-> secs, raw_text |-> <<>>, parser_used |-> "deepseek",
     pages_processed |-> pages]

\* PdfContent(sections=sections, ..., raw_text=full_markdown,
\* parser_used=ParserType.DEEPSEEK, metadata={... "pages_processed": ...})
PdfContent(secs, full_markdown, pages) ==
    [sections |-> secs, raw_text |-> full_markdown, parser_used |-> "deepseek",
     pages_processed |-> pages]

\* the rest of the try block: join the pages, segment, build the PdfContent
Assemble(c) ==
    /\ pc[c] = "infer"
    /\ Len(all_text[c]) = Len(image_paths[c])
    /\ LET full_markdown == Join(all_text[c], <<"\n", "\n">>)
       IN  ret' = [ret EXCEPT ![c] =
               Return(PdfContent(ParseMarkdownToSections(full_markdown),
                                 full_markdown, Len(image_paths[c])))]
    /\ pc' = [pc EXCEPT ![c] = "finally"]
    /\ trace' = [trace EXCEPT ![c] = Append(@, "segment")]
    /\ UNCHANGED <<segvars, objvars, via, doc, temp_dir, image_paths,
                   all_text, out>>

\* the finally block of DeepSeekParser.parse_pdf: shutil.rmtree(temp_dir)
Cleanup(c) ==
    /\ pc[c] = "finally"
    /\ fs' = IF NeedsCleanup(temp_dir[c], fs, ret[c])
             THEN {f \in fs : Head(f) # temp_dir[c]}
             ELSE fs
    /\ pc' = [pc EXCEPT ![c] = "return"]
    /\ trace' = [trace EXCEPT ![c] = Append(@, "finally")]
    /\ UNCHANGED <<segvars, svc, _model, _tokenizer, loads, callers, calls,
                   ndirs, handles, via, doc, temp_dir, image_paths, all_text,
                   ret, out>>

\* DoclingParser.parse_pdf: the validation of section 4.1, a soft skip on an
\* exceeded limit, then the extracted text or an extraction failure
DoclingParsePdf(c) ==
    /\ pc[c] = "docling"
    /\ LET v == ValidatePdf(doc[c], svc.max_file_size_bytes, svc.max_pages)
       IN  IF v.kind \in {"size", "pages"}
           THEN ret' = [ret EXCEPT ![c] = ReturnNone]
           ELSE IF v.kind # "ok"
           THEN ret' = [ret EXCEPT ![c] = Raise("PDFValidationError", v.msg)]
           ELSE \/ \E t \in PageTexts :
                      ret' = [ret EXCEPT ![c] =
                          Return([sections |-> ParseMarkdownToSections(t),
                                  raw_text |-> t,
                                  parser_used |-> "docling",
                                  pages_processed |-> 0])]
                \/ ret' = [ret EXCEPT ![c] =
                      Raise("PDFParsingException", <<"docling failed">>)]
    /\ pc' = [pc EXCEPT ![c] = "return"]
    /\ trace' = [trace EXCEPT ![c] = Append(@, "docling")]
    /\ UNCHANGED <<segvars, objvars, via, doc, temp_dir, image_paths,
                   all_text, out>>

\* PDFParserService.parse_pdf once the backend has ended
SvcReturn(c) ==
    /\ pc[c] = "return"
    /\ via[c] = "service"
    /\ out' = [out EXCEPT ![c] = ServiceOutcome(ret[c], svc.parser_type, doc[c])]
    /\ pc' = [pc EXCEPT ![c] = "done"]
    /\ UNCHANGED <<segvars, objvars, via, doc, temp_dir, image_paths,
                   all_text, ret, trace>>

\* the caller of DeepSeekParser.parse_pdf gets what it ended with
DirectReturn(c) ==
    /\ pc[c] = "return"
    /\ via[c] = "direct"
    /\ out' = [out EXCEPT ![c] = ret[c]]
    /\ pc' = [pc EXCEPT ![c] = "done"]
    /\ UNCHANGED <<segvars, objvars, via, doc, temp_dir, image_paths,
                   all_text, ret, trace>>

\* the call is over: its locals are gone
Finish(c) ==
    /\ pc[c] = "done"
    /\ pc' = [pc EXCEPT ![c] = "idle"]
    /\ via' = [via EXCEPT ![c] = ""]
    /\ doc' = [doc EXCEPT ![c] = NoDoc]
    /\ temp_dir' = [temp_dir EXCEPT ![c] = 0]
    /\ image_paths' = [image_paths EXCEPT ![c] = <<>>]
    /\ all_text' = [all_text EXCEPT ![c] = <<>>]
    /\ ret' = [ret EXCEPT ![c] = Pending]
    /\ out' = [out EXCEPT ![c] = Pending]
    /\ trace' = [trace EXCEPT ![c] = <<>>]
    /\ UNCHANGED <<segvars, objvars>>

Next ==
    \/ Construct
    \/ \E c \in callers : SvcCall(c)
    \/ \E c \in callers : DirectCall(c)
    \/ \E c \in callers : Validate(c)
    \/ \E c \in callers : LazyLoadModel(c)
    \/ \E c \in callers : FromPretrained(c)
    \/ \E c \in callers : ToDevice(c)
    \/ \E c \in callers : Mkdtemp(c)
    \/ \E c \in callers : RasterOpen(c)
    \/ \E c \in callers : RenderPage(c)
    \/ \E c \in callers : RasterClose(c)
    \/ \E c \in callers : InferBegin(c)
    \/ \E c \in callers : InferPage(c)
    \/ \E c \in callers : Assemble(c)
    \/ \E c \in callers : Cleanup(c)
    \/ \E c \in callers : DoclingParsePdf(c)
    \/ \E c \in callers : SvcReturn(c)
    \/ \E c \in callers : DirectReturn(c)
    \/ \E c \in callers : Finish(c)

Spec == Init /\ [][Next]_vars

\* ------------------------------------------------------------------ ConcSpec
\* two threads call parse_pdf on the one DeepSeekParser, each step of a call
\* interleaved with the steps of the other; the documents are readable
\* files at one path
ConcDocs ==
    { d \in Docs :
        d.exists /\ d.fault = "none" /\ d.path = <<"paper.pdf">> }

ConcInit == SegOff /\ PipeOff(CallerIds)

ConcNext ==
    \/ Construct
    \/ \E c \in callers : DirectCallOn(c, ConcDocs)
    \/ \E c \in callers : Validate(c)
    \/ \E c \in callers : LazyLoadModel(c)
    \/ \E c \in callers : FromPretrained(c)
    \/ \E c \in callers : ToDevice(c)
    \/ \E c \in callers : Mkdtemp(c)
    \/ \E c \in callers : RasterOpen(c)
    \/ \E c \in callers : RenderPage(c)
    \/ \E c \in callers : RasterClose(c)
    \/ \E c \in callers : InferBegin(c)
    \/ \E c \in callers : InferPage(c)
    \/ \E c \in callers : Assemble(c)
    \/ \E c \in callers : Cleanup(c)
    \/ \E c \in callers : DirectReturn(c)
    \/ \E c \in callers : Finish(c)

ConcSpec == ConcInit /\ [][ConcNext]_vars

\* ------------------------------------------------------------------ pipeline claims
\* the check of _validate_pdf that fails on the document of caller c
FailedCheck(c) ==
    ValidatePdf(doc[c], svc.max_file_size_bytes, svc.max_pages).kind

OverLimit(c) ==
    \/ doc[c].size > svc.max_file_size_bytes
    \/ doc[c].pages > svc.max_pages

Ended(c) == pc[c] = "done"

InTrace(c, step) == \E i \in 1..Len(trace[c]) : trace[c][i] = step

\* C1: for an existing document over the byte limit or over the page limit,
\* PDFParserService.parse_pdf ends by returning None and raises nothing
\* (stated for the service that holds a DeepSeekParser).
C1_OverLimitReturnsNone ==
    \A c \in callers :
        ( /\ Ended(c)
          /\ via[c] = "service"
          /\ svc.parser_type = "deepseek"
          /\ doc[c].exists
          /\ OverLimit(c) ) => out[c].kind = "None"

C3_BadSignatureRaises ==
    \A c \in callers :
        ( /\ Ended(c)
          /\ svc.parser_type = "deepseek"
          /\ doc[c].exists
          /\ ~doc[c].magic ) =>
            /\ ret[c].kind # "None"
            /\ out[c].kind = "raise"
            /\ out[c].exc = "PDFValidationError"

\* C4: DeepSeekParser.parse_pdf turns a validation failure into a soft skip
\* exactly when the failed check is the size limit or the page limit; every
\* other validation failure is raised as PDFValidationError, whatever the
\* path and the text of the cause.
C4_SoftSkipIffLimit ==
    \A c \in callers :
        ( /\ pc[c] \in {"finally", "return", "done"}
          /\ svc.parser_type = "deepseek"
          /\ InTrace(c, "validate")
          /\ FailedCheck(c) # "ok" ) =>
            /\ ret[c].kind = "None" <=> FailedCheck(c) \in {"size", "pages"}
            /\ FailedCheck(c) \notin {"size", "pages"} =>
                  (ret[c].kind = "raise" /\ ret[c].exc = "PDFValidationError")

\* C5: once a DeepSeekParser.parse_pdf call has left its finally block, its
\* temporary directory and page images are gone on every exit path, and a
\* call that made no directory leaves none: whatever exists under the
\* temporary area belongs to a call that is still running.
C5_TempDirRemoved ==
    \A f \in fs :
        \E c \in callers :
            /\ temp_dir[c] = Head(f)
            /\ pc[c] \in {"rasterize", "render", "render_failed", "infer",
                          "inferring", "finally"}

\* C5 witness: a call that wrote a page image and then failed to render the
\* next page has ended
C5_Witness ==
    \E c \in callers :
        /\ Ended(c)
        /\ temp_dir[c] # 0
        /\ InTrace(c, "render")
        /\ InTrace(c, "render_fails")
        /\ ret[c].kind = "raise"

\* C6: on a path that does not exist the service raises without invoking the
\* backend: no validation check, model load or rasterization has run.
C6_MissingFileNoBackend ==
    \A c \in callers :
        (Ended(c) /\ via[c] = "service" /\ ~doc[c].exists) =>
            /\ out[c].kind = "raise"
            /\ trace[c] = <<"exists">>
            /\ ret[c] = Pending
            /\ temp_dir[c] = 0

\* C6 witness: a service call on a missing file has ended, the model of the
\* parser being loaded by an earlier call
C6_Witness ==
    \E c \in callers :
        /\ Ended(c)
        /\ via[c] = "service"
        /\ ~doc[c].exists
        /\ out[c].kind = "raise"
        /\ _model # "None"

\* ------------------------------------------------------------------ extraction claims
\* a page text without usable content
Blank(t) == Strip(t) = <<>>

\* the backend's parse_pdf of caller c is over
BackendEnded(c) == pc[c] \in {"return", "done"}

\* the inference steps of the call of caller c, one for each page, in order
InferSteps(c) ==
    SelectSeq(trace[c], LAMBDA s : s \in {"infer", "infer_fails"})

\* C11: after validation passed, when no page yields usable text (no page
\* was rendered, or for every page inference failed or returned blank text)
\* DeepSeekParser.parse_pdf raises PDFParsingException and returns no
\* PdfContent.
C11_NoUsableTextRaises ==
    \A c \in callers :
        ( /\ BackendEnded(c)
          /\ svc.parser = "DeepSeekParser"
          /\ InTrace(c, "lazy_load")
          /\ \A i \in 1..Len(all_text[c]) : Blank(all_text[c][i]) ) =>
            (ret[c].kind = "raise" /\ ret[c].exc = "PDFParsingException")

\* C12: a page whose inference raised contributes the empty string at its
\* position and the pages after it are still processed; a call in which
\* inference raised for some page and succeeded for another returns a
\* PdfContent made of the texts of all rendered pages.
C12_FailedPageIsEmpty ==
    \A c \in callers :
        /\ Len(InferSteps(c)) = Len(all_text[c])
        /\ \A i \in 1..Len(all_text[c]) :
              InferSteps(c)[i] = "infer_fails" => all_text[c][i] = <<>>
        /\ ( /\ BackendEnded(c)
             /\ InTrace(c, "infer_fails")
             /\ InTrace(c, "infer") ) =>
               /\ ret[c].kind = "content"
               /\ Len(all_text[c]) = Len(image_paths[c])
               /\ Len(image_paths[c]) = NumPages(doc[c].pages, svc.max_pages)
               /\ ret[c].content.pages_processed = Len(image_paths[c])
               /\ ret[c].content.raw_text = Join(all_text[c], <<"\n", "\n">>)

\* C12 witness: a call whose first page failed in inference and whose second
\* page gave a section has returned
C12_Witness ==
    \E c \in callers :
        /\ BackendEnded(c)
        /\ Len(all_text[c]) = 2
        /\ InferSteps(c) = <<"infer_fails", "infer">>
        /\ all_text[c][1] = <<>>
        /\ ret[c].kind = "content"
        /\ ret[c].content.sections # <<>>

\* C13: in sequential calls on one DeepSeekParser the model is loaded at most
\* once; once loaded it is never None again, nothing loads it again, the
\* tokenizer stays, a model moved to its device stays there, and every
\* inference runs with the model loaded.
C13_SessionLoadedOnce ==
    /\ [](/\ loads <= 1
          /\ (loads = 1 <=> _model # "None")
          /\ (_model # "None" => _tokenizer = "tokenizer")
          /\ \A c \in callers : pc[c] = "inferring" => _model # "None")
    /\ [][_model # "None" =>
            /\ _model' # "None"
            /\ loads' = loads
            /\ _tokenizer' = _tokenizer
            /\ (_model # "loaded" => _model' = _model)]_vars

\* C13 witness: the second call on the parser runs inference without having
\* loaded the model, the first call having loaded it
C13_Witness ==
    \E c \in callers :
        /\ calls = 2
        /\ pc[c] = "inferring"
        /\ InTrace(c, "lazy_load")
        /\ ~InTrace(c, "load")
        /\ loads = 1

\* C14: in every PdfContent returned, by the backend or by the service,
\* non-empty sections come with a non-empty raw_text.
C14_SectionsImplyRawText ==
    \A c \in callers :
        /\ ret[c].kind = "content" =>
              (ret[c].content.sections # <<>> =>
                  ret[c].content.raw_text # <<>>)
        /\ out[c].kind = "content" =>
              (out[c].content.sections # <<>> =>
                  out[c].content.raw_text # <<>>)

\* C14 witness: the DeepSeek backend returned a PdfContent with a section
C14_Witness ==
    \E c \in callers :
        /\ BackendEnded(c)
        /\ ret[c].kind = "content"
        /\ ret[c].content.parser_used = "deepseek"
        /\ ret[c].content.sections # <<>>
        /\ ret[c].content.raw_text # <<>>

\* C15: the error the service raises for a missing file is of a kind of its
\* own: neither the validator's PDFValidationError nor the extraction error
\* PDFParsingException.
C15_MissingFileOwnKind ==
    \A c \in callers :
        (Ended(c) /\ via[c] = "service" /\ ~doc[c].exists) =>
            /\ out[c].kind = "raise"
            /\ out[c].exc \notin {"PDFValidationError", "PDFParsingException"}

\* ------------------------------------------------------------------ validation claims
\* the order of the checks: the size is read (and must not be 0), compared
\* with the limit, the signature is read, the structural reader is opened,
\* its page count is compared with the limit
CheckOrder == <<"stat", "size", "header", "open_pdf", "pages">>

\* the checks the validation of caller c went through, in order
ChecksDone(c) ==
    SelectSeq(trace[c],
              LAMBDA s : s \in {CheckOrder[i] : i \in 1..Len(CheckOrder)})

\* the first check of section 4.1 the document fails, read off the document
EarliestFailure(d, max_file_size_bytes, max_pages) ==
    IF d.size = 0 THEN "empty"
    ELSE IF d.size > max_file_size_bytes THEN "size"
    ELSE IF ~d.magic THEN "header"
    ELSE IF d.pages > max_pages THEN "pages"
    ELSE "ok"

\* the number of checks gone through when the given one is the first to fail
ChecksUpTo(failure) ==
    CASE failure = "empty"  -> 1
      [] failure = "size"   -> 2
      [] failure = "header" -> 3
      [] OTHER              -> 5

\* the first word of the message raised for a failure that is no limit
MessageHead(failure) ==
    IF failure = "empty" THEN "PDF file is empty: "
    ELSE "File does not have PDF header: "

\* C16: _validate_pdf goes through its checks in the order non-empty, size,
\* signature, page count and stops at the first that fails: on a readable
\* document the checks made are those up to the earliest failing one, the
\* error raised is that check's, and the structural reader is opened only
\* for a non-empty document within the byte limit that has the signature.
C16_ChecksInOrder ==
    \A c \in callers :
        (svc.parser = "DeepSeekParser" /\ InTrace(c, "validate")) =>
            LET d == doc[c]
                first == EarliestFailure(d, svc.max_file_size_bytes,
                                         svc.max_pages)
            IN  /\ Len(ChecksDone(c)) <= Len(CheckOrder)
                /\ ChecksDone(c) = SubSeq(CheckOrder, 1, Len(ChecksDone(c)))
                /\ InTrace(c, "open_pdf") =>
                      /\ d.size > 0
                      /\ d.size <= svc.max_file_size_bytes
                      /\ d.magic
                /\ (d.exists /\ d.fault = "none") =>
                      /\ Len(ChecksDone(c)) = ChecksUpTo(first)
                      /\ first = "ok" =>
                            /\ ret[c].kind # "None"
                            /\ ret[c].exc # "PDFValidationError"
                      /\ first # "ok" =>
                            /\ ret[c].kind \in {"None", "raise"}
                            /\ ~InTrace(c, "lazy_load")
                      /\ ( /\ first \in {"empty", "header"}
                           /\ ret[c].kind = "raise" ) =>
                             /\ ret[c].exc = "PDFValidationError"
                             /\ ret[c].msg[1] = MessageHead(first)

\* C16 witness: a document over the byte limit, without the signature and
\* over the page limit was validated, and the size check was the last made
C16_Witness ==
    \E c \in callers :
        /\ svc.parser = "DeepSeekParser"
        /\ doc[c].exists
        /\ doc[c].fault = "none"
        /\ doc[c].size > svc.max_file_size_bytes
        /\ ~doc[c].magic
        /\ doc[c].pages > svc.max_pages
        /\ svc.max_pages > 0
        /\ ChecksDone(c) = <<"stat", "size">>
        /\ ~InTrace(c, "open_pdf")

\* ------------------------------------------------------------------ construction claims
KnownParserTypes == {"deepseek", "docling"}

\* the constructor of the service has run
Constructed == svc.state # "unbuilt"

\* C17: no parser or service is constructed with max_pages <= 0 or
\* max_file_size_mb <= 0: every constructed one has max_pages > 0 and
\* max_file_size_bytes > 0 (stated for the service that holds a
\* DeepSeekParser).
C17_PositiveLimits ==
    (svc.state = "built" /\ svc.parser = "DeepSeekParser") =>
        (svc.max_pages > 0 /\ svc.max_file_size_bytes > 0)

\* C18: a parser_type that is not one of the two known names, compared
\* without regard to case, fails the construction; a constructed service has
\* the lowered name of a known backend and holds the parser of that name,
\* and every call in progress has such a parser to go to.
C18_KnownBackendOnly ==
    /\ (Constructed /\ LowerWord(svc.given_type) \notin KnownParserTypes) =>
          svc.state = "failed"
    /\ svc.state = "built" =>
          /\ svc.parser_type \in KnownParserTypes
          /\ svc.parser_type = LowerWord(svc.given_type)
          /\ (svc.parser_type = "deepseek" <=> svc.parser = "DeepSeekParser")
          /\ (svc.parser_type = "docling" <=> svc.parser = "DoclingParser")
    /\ \A c \in callers :
          pc[c] # "idle" =>
              /\ svc.state = "built"
              /\ svc.parser \in {"DeepSeekParser", "DoclingParser"}

\* C18 witness: the construction with the name of no backend has failed
C18_Witness ==
    /\ svc.state = "failed"
    /\ svc.given_type = "tesseract"
    /\ svc.given_resolution \in resolution_config

\* C19 as stated: a service given an invalid resolution tier is never
\* constructed, whichever parser_type it names.
C19_InvalidTierNeverBuilt ==
    (Constructed /\ svc.given_resolution \notin resolution_config) =>
        svc.state = "failed"

\* C19: an invalid resolution tier fails the construction of a service that
\* names the DeepSeek backend, and no parse call fails on it: the parser
\* held has a valid tier, every inference reads the pair of a valid tier and
\* no call ends on a missing key. A service that names the Docling backend
\* is constructed whatever the tier.
C19_InvalidTierRejectedByDeepSeek ==
    /\ ( /\ Constructed
         /\ LowerWord(svc.given_type) = "deepseek"
         /\ svc.given_resolution \notin resolution_config ) =>
           svc.state = "failed"
    /\ (svc.state = "built" /\ svc.parser = "DeepSeekParser") =>
          /\ svc.resolution \in resolution_config
          /\ svc.resolution = svc.given_resolution
    /\ (Constructed /\ LowerWord(svc.given_type) = "docling") =>
          svc.state = "built"
    /\ \A c \in callers :
          /\ pc[c] = "inferring" => svc.resolution \in resolution_config
          /\ ret[c] # Wrapped(<<"KeyError">>)

\* C19 witness: the construction of a DeepSeek service with the tier "huge"
\* has failed
C19_Witness ==
    /\ svc.state = "failed"
    /\ LowerWord(svc.given_type) = "deepseek"
    /\ svc.given_resolution = "huge"

\* ------------------------------------------------------------------ concurrency claims
\* the callers whose self._model.infer call is running
Inferring == {c \in callers : pc[c] = "inferring"}

\* C20: with two threads calling parse_pdf on one DeepSeekParser, in every
\* interleaving the model is loaded at most once and no two inference calls
\* on the session run at the same time.
C20_SessionOneAtATime ==
    /\ loads <= 1
    /\ Cardinality(Inferring) <= 1

\* ------------------------------------------------------------------ phase claims
\* the phase of parse_pdf a step of the trace belongs to: 1 validate, 2 load
\* model, 3 create the temporary directory, 4 rasterize, 5 infer, 6 segment,
\* 7 the finally block; 0 for the steps before the backend
PhaseOf(step) ==
    CASE step \in {"validate", "stat", "size", "header", "open_pdf", "pages"}
             -> 1
      [] step \in {"lazy_load", "load", "load_fails", "to_device",
                   "to_device_fails"} -> 2
      [] step = "mkdtemp" -> 3
      [] step \in {"rasterize", "render", "render_fails", "close_pdf"} -> 4
      [] step \in {"infer", "infer_fails"} -> 5
      [] step = "segment" -> 6
      [] step = "finally" -> 7
      [] OTHER -> 0

\* the number of times the step occurs in the trace of caller c
Occurrences(c, step) ==
    Cardinality({i \in 1..Len(trace[c]) : trace[c][i] = step})

\* the session of the parser
Session == <<_model, _tokenizer, loads>>

\* the validation of the call of caller c has failed
ValidationFailed(c) ==
    /\ svc.parser = "DeepSeekParser"
    /\ InTrace(c, "validate")
    /\ FailedCheck(c) # "ok"

\* C21: in every DeepSeekParser.parse_pdf call the phases run in the order
\* validate, load model, create the temporary directory, rasterize, infer
\* each page, segment, each once and none before the one that precedes it;
\* a call whose validation fails loads no model, makes no directory,
\* renders no page, infers nothing, and no step of it changes the session.
C21_PhasesInOrder ==
    /\ [](\A c \in callers :
            svc.parser = "DeepSeekParser" =>
                /\ \A i \in 1..Len(trace[c]) : \A j \in i..Len(trace[c]) :
                      PhaseOf(trace[c][i]) <= PhaseOf(trace[c][j])
                /\ \A step \in {"validate", "lazy_load", "mkdtemp",
                                 "rasterize", "close_pdf", "segment"} :
                      Occurrences(c, step) <= 1
                /\ InTrace(c, "lazy_load") =>
                      (InTrace(c, "validate") /\ FailedCheck(c) = "ok")
                /\ InTrace(c, "mkdtemp") =>
                      (InTrace(c, "lazy_load") /\ _model # "None")
                /\ InTrace(c, "rasterize") => InTrace(c, "mkdtemp")
                /\ (InTrace(c, "infer") \/ InTrace(c, "infer_fails")) =>
                      InTrace(c, "close_pdf")
                /\ InTrace(c, "segment") =>
                      /\ Len(image_paths[c]) > 0
                      /\ Occurrences(c, "infer")
                            + Occurrences(c, "infer_fails")
                            = Len(image_paths[c])
                /\ ValidationFailed(c) =>
                      /\ \A i \in 1..Len(trace[c]) :
                            PhaseOf(trace[c][i]) \in {0, 1, 7}
                      /\ temp_dir[c] = 0
                      /\ image_paths[c] = <<>>
                      /\ all_text[c] = <<>>
                      /\ fs = {}
                      /\ handles = 0)
    /\ [][(\E c \in callers : ValidationFailed(c)) =>
              Session' = Session]_vars

\* C21 witness: a call whose validation failed has ended on a parser whose
\* model an earlier call had loaded
C21_Witness ==
    \E c \in callers :
        /\ Ended(c)
        /\ ValidationFailed(c)
        /\ FailedCheck(c) = "header"
        /\ _model \in {"cuda", "cpu"}
        /\ loads = 1

\* C22: when rendering or saving a page fails, no later page is rendered
\* and no image list, partial or not, reaches parse_pdf: the PDF document is
\* closed, no inference is made, the backend raises PDFParsingException and
\* so does the service.
C22_RenderFailurePropagates ==
    \A c \in callers :
        InTrace(c, "render_fails") =>
            /\ \A i \in 1..Len(trace[c]) : \A j \in i..Len(trace[c]) :
                  trace[c][i] = "render_fails" => trace[c][j] # "render"
            /\ Occurrences(c, "render_fails") = 1
            /\ ~InTrace(c, "infer")
            /\ ~InTrace(c, "infer_fails")
            /\ ~InTrace(c, "segment")
            /\ all_text[c] = <<>>
            /\ pc[c] \in {"render_failed", "finally", "return", "done"}
            /\ ret[c].kind = "raise"
            /\ ret[c].exc = "PDFParsingException"
            /\ pc[c] # "render_failed" =>
                  /\ InTrace(c, "close_pdf")
                  /\ handles = 0
                  /\ image_paths[c] = <<>>
            /\ Ended(c) =>
                  (out[c].kind = "raise" /\ out[c].exc = "PDFParsingException")

\* C22 witness: a service call whose second page failed to render, the
\* first having been saved, has ended
C22_Witness ==
    \E c \in callers :
        /\ Ended(c)
        /\ via[c] = "service"
        /\ Occurrences(c, "render") = 1
        /\ InTrace(c, "render_fails")
        /\ InTrace(c, "close_pdf")
        /\ handles = 0
        /\ out[c].exc = "PDFParsingException"

\* the texts joined with a blank line between them
RECURSIVE BlankLineJoined(_)
BlankLineJoined(texts) ==
    IF texts = <<>> THEN <<>>
    ELSE IF Len(texts) = 1 THEN texts[1]
    ELSE texts[1] \o <<"\n", "\n">> \o BlankLineJoined(Tail(texts))

\* min(total_pages, max_pages) of the call of caller c
PagesDue(c) ==
    IF doc[c].pages <= svc.max_pages THEN doc[c].pages ELSE svc.max_pages

\* C23: the pages are rendered in ascending order from the first; a
\* DeepSeek parse that returns a PdfContent has rendered exactly
\* min(total_pages, max_pages) pages, its raw_text is the texts of those
\* pages in page order with a blank line between them, the empty string for
\* a page whose inference failed, and pages_processed is their number.
C23_PagesInOrder ==
    \A c \in callers :
        /\ \A i \in 1..Len(image_paths[c]) : image_paths[c][i] = i - 1
        /\ ( /\ BackendEnded(c)
             /\ ret[c].kind = "content"
             /\ ret[c].content.parser_used = "deepseek" ) =>
               /\ Len(image_paths[c]) = PagesDue(c)
               /\ Occurrences(c, "render") = PagesDue(c)
               /\ Len(all_text[c]) = PagesDue(c)
               /\ Len(InferSteps(c)) = PagesDue(c)
               /\ \A i \in 1..Len(all_text[c]) :
                     InferSteps(c)[i] = "infer_fails" => all_text[c][i] = <<>>
               /\ ret[c].content.raw_text = BlankLineJoined(all_text[c])
               /\ ret[c].content.pages_processed = PagesDue(c)

\* C23 witness: a parse of a two-page document has returned, the second
\* page's inference having failed
C23_Witness ==
    \E c \in callers :
        /\ BackendEnded(c)
        /\ ret[c].kind = "content"
        /\ doc[c].pages = 2
        /\ image_paths[c] = <<0, 1>>
        /\ InferSteps(c) = <<"infer", "infer_fails">>
        /\ ret[c].content.raw_text = <<"a", "\n", "\n">>
        /\ ret[c].content.pages_processed = 2

\* ------------------------------------------------------------------ error kind claims
ServiceErrors == {"PDFValidationError", "PDFParsingException"}

\* C27: every exception that leaves PDFParserService.parse_pdf is a
\* PDFValidationError or a PDFParsingException; what the backend raises is
\* one of the two and reaches the caller with its kind unchanged.
C27_OnlyServiceErrors ==
    \A c \in callers :
        /\ ret[c].kind = "raise" => ret[c].exc \in ServiceErrors
        /\ (Ended(c) /\ via[c] = "service") =>
              /\ out[c].kind = "raise" => out[c].exc \in ServiceErrors
              /\ ret[c].kind = "raise" => out[c] = ret[c]

\* ------------------------------------------------------------------ claims
\* reading of a text that does not go through the segmenter's loop
HeaderLines(ls) == {i \in 1..Len(ls) : HeaderHit(ls[i])}

ContentLines(ls) ==
    {i \in 1..Len(ls) : ~HeaderHit(ls[i]) /\ Strip(ls[i]) # <<>>}

Max(S) == CHOOSE m \in S : \A x \in S : x <= m

Min(S) == CHOOSE m \in S : \A x \in S : m <= x

\* the header line that precedes line i most closely, 0 when there is none
OwnerOf(ls, i) == Max({0} \cup {h \in HeaderLines(ls) : h < i})

\* the headers (0: the implicit section) that are followed by content
LiveOwners(ls) == {OwnerOf(ls, i) : i \in ContentLines(ls)}

RECURSIVE SortedSeq(_)
SortedSeq(S) ==
    IF S = {} THEN <<>> ELSE <<Min(S)>> \o SortedSeq(S \ {Min(S)})

RECURSIVE SelectLines(_, _)
SelectLines(ls, keep) ==
    IF keep = <<>> THEN <<>>
    ELSE <<ls[Head(keep)]>> \o SelectLines(ls, Tail(keep))

\* C7: every section opened by a header line carries that header's depth as
\* its level, whether it is emitted at a later header or at end of input;
\* the implicit pre-header section has level 1.
C7_LevelIsHeaderDepth ==
    segpc = "done" =>
        LET ls   == SplitLines(markdown_text)
            live == SortedSeq(LiveOwners(ls))
        IN  /\ Len(sections) = Len(live)
            /\ \A j \in 1..Len(sections) :
                  sections[j].level =
                      IF live[j] = 0 THEN 1 ELSE HeaderLevel(ls[live[j]])

\* C8: no returned section has content that is empty after trimming.
C8_NoEmptyContent ==
    segpc = "done" =>
        \A j \in 1..Len(sections) : Strip(sections[j].content) # <<>>

\* C8 witness: a header without content was met and dropped, others emitted
C8_Witness ==
    /\ segpc = "done"
    /\ Len(sections) >= 1
    /\ LET ls == SplitLines(markdown_text)
       IN  HeaderLines(ls) \ LiveOwners(ls) # {}

NoHeaderLine(text) == HeaderLines(SplitLines(text)) = {}

\* some blank line lies between two non-blank lines of the text
InnerBlankLine(text) ==
    \E l \in 1..Len(SplitLines(Strip(text))) :
        Strip(SplitLines(Strip(text))[l]) = <<>>

\* C9 as stated: a text without header line gives exactly one section titled
\* "Content" whose content is the full trimmed input, or none when blank.
C9_FullTrimmedInput ==
    (segpc = "done" /\ NoHeaderLine(markdown_text)) =>
        sections =
            IF Strip(markdown_text) = <<>> THEN <<>>
            ELSE <<PaperSection(DefaultTitle, Strip(markdown_text), 1)>>

\* C9 amended: a text without header line gives exactly one section titled
\* "Content" whose content is the non-blank lines of the input joined by
\* newlines and trimmed (the full trimmed input when no blank line lies
\* between non-blank lines), or no section when the input is blank.
C9_NonBlankLinesJoined ==
    (segpc = "done" /\ NoHeaderLine(markdown_text)) =>
        LET ls   == SplitLines(markdown_text)
            kept == SelectLines(ls, SortedSeq(ContentLines(ls)))
            body == Strip(Join(kept, <<"\n">>))
        IN  /\ sections =
                  IF Strip(markdown_text) = <<>> THEN <<>>
                  ELSE <<PaperSection(DefaultTitle, body, 1)>>
            /\ ~InnerBlankLine(markdown_text) => body = Strip(markdown_text)

\* C9 witness: a header-free text with a blank line between two content lines
C9_Witness ==
    /\ segpc = "done"
    /\ NoHeaderLine(markdown_text)
    /\ InnerBlankLine(markdown_text)
    /\ Len(sections) = 1

\* a section that survives reconstruction: level 1, a non-empty trimmed title
\* on one line, a non-empty trimmed content without blank or header line
RoundTrippable(s) ==
    /\ s.level = 1
    /\ s.title # <<>>
    /\ Strip(s.title) = s.title
    /\ \A i \in 1..Len(s.title) : s.title[i] # "\n"
    /\ s.content # <<>>
    /\ Strip(s.content) = s.content
    /\ \A l \in 1..Len(SplitLines(s.content)) :
          /\ Strip(SplitLines(s.content)[l]) # <<>>
          /\ ~HeaderHit(SplitLines(s.content)[l])

\* C10 as stated: segmenting the concatenation of "# " + title + "\n" +
\* content over a known sequence of sections returns that sequence.
C10_RoundTrip ==
    (segpc = "done" /\ markdown_text = Rebuild(known, <<>>)) =>
        sections = known

\* C10 amended: the round trip holds when every reconstructed section is
\* followed by a newline and every known section has level 1, a non-empty
\* trimmed one-line title and a non-empty trimmed content that has no blank
\* line and no header line.
C10_RoundTripNewline ==
    ( /\ segpc = "done"
      /\ markdown_text = Rebuild(known, <<"\n">>)
      /\ \A k \in 1..Len(known) : RoundTrippable(known[k]) ) =>
        sections = known

\* C10 witness: two sections, one of them of several lines, came back
C10_Witness ==
    /\ segpc = "done"
    /\ Len(known) = 2
    /\ markdown_text = Rebuild(known, <<"\n">>)
    /\ \A k \in 1..Len(known) : RoundTrippable(known[k])
    /\ \E k \in 1..Len(known) : Len(SplitLines(known[k].content)) > 1
    /\ sections = known

\* the title of the section opened at header line h, 0 for the implicit one
TitleAt(ls, h) ==
    IF h = 0 THEN DefaultTitle ELSE Strip(HeaderGroup2(ls[h]))

\* the content lines that follow header line h (0: precede every header)
\* before the next header line, in input order
LinesUnder(ls, h) ==
    SelectLines(ls, SortedSeq({i \in ContentLines(ls) : OwnerOf(ls, i) = h}))

\* C24: a header line followed by no non-blank content before the next
\* header line or the end of the input yields no section; there is one
\* section for each other header (and for the implicit section when content
\* precedes every header), and its content is the non-blank non-header
\* lines whose nearest preceding header it is.
C24_ContentUnderNearestHeader ==
    segpc = "done" =>
        LET ls   == SplitLines(markdown_text)
            live == SortedSeq(LiveOwners(ls))
        IN  /\ Len(sections) = Len(live)
            /\ \A j \in 1..Len(sections) :
                  /\ sections[j].title = TitleAt(ls, live[j])
                  /\ sections[j].content =
                        Strip(Join(LinesUnder(ls, live[j]), <<"\n">>))

\* C24 witness: of three header lines the second has no content and two
\* sections came out, the first with content of two lines
C24_Witness ==
    /\ segpc = "done"
    /\ LET ls == SplitLines(markdown_text)
       IN  /\ Cardinality(HeaderLines(ls)) >= 2
           /\ HeaderLines(ls) \ LiveOwners(ls) # {}
           /\ 0 \in LiveOwners(ls)
    /\ Len(sections) = 2

\* C25: the sections come in the order of their header lines in the text,
\* the implicit section first when it is emitted, and every level is an
\* integer from 1 to 6.
C25_SectionsInHeaderOrder ==
    segpc = "done" =>
        LET ls   == SplitLines(markdown_text)
            live == SortedSeq(LiveOwners(ls))
        IN  /\ \A j \in 1..Len(sections) : sections[j].level \in 1..6
            /\ Len(sections) <= Len(live)
            /\ \A j \in 1..Len(sections) :
                  /\ sections[j].title = TitleAt(ls, live[j])
                  /\ Strip(Head(SplitLines(sections[j].content)))
                        = Strip(Head(LinesUnder(ls, live[j])))
            /\ \A j \in 1..Len(sections) : \A k \in 1..Len(sections) :
                  j < k => live[j] < live[k]
            /\ \A j \in 1..Len(sections) :
                  (0 \in LiveOwners(ls) /\ j > 1) => live[j] # 0

\* C25 witness: the sections of two headers of different titles came out,
\* the second of depth 2
C25_Witness ==
    /\ segpc = "done"
    /\ Len(sections) = 2
    /\ 0 \notin LiveOwners(SplitLines(markdown_text))
    /\ sections[1].title # sections[2].title
    /\ sections[2].level = 2

\* the lines of the contents of the sections, one after the other
RECURSIVE ContentLinesOf(_)
ContentLinesOf(secs) ==
    IF secs = <<>> THEN <<>>
    ELSE SplitLines(Head(secs).content) \o ContentLinesOf(Tail(secs))

\* the positions, among those lines, of the last line of each section
RECURSIVE SectionEnds(_, _)
SectionEnds(secs, before) ==
    IF secs = <<>> THEN {}
    ELSE LET end == before + Len(SplitLines(Head(secs).content))
         IN  {end} \cup SectionEnds(Tail(secs), end)

\* C26: the lines of the sections' contents, in section order, are the
\* non-blank non-header lines of the input in input order: as many, each
\* the same up to the whitespace trimmed at the two ends of a section, the
\* lines inside a section unchanged; only a header line between two of them
\* puts them in different sections, a blank line does not.
C26_NoLossNoDuplication ==
    segpc = "done" =>
        LET ls    == SplitLines(markdown_text)
            idx   == SortedSeq(ContentLines(ls))
            given == SelectLines(ls, idx)
            got   == ContentLinesOf(sections)
            ends  == SectionEnds(sections, 0)
        IN  /\ Len(got) = Len(given)
            /\ \A i \in 1..Len(got) :
                  /\ Strip(got[i]) = Strip(given[i])
                  /\ (i \notin ends /\ i - 1 \notin ends /\ i # 1) =>
                        got[i] = given[i]
            /\ \A i \in 1..(Len(given) - 1) :
                  i \in ends <=> OwnerOf(ls, idx[i]) # OwnerOf(ls, idx[i + 1])

\* C26 witness: a blank line lies between two content lines that follow a
\* header line, and one section of two lines came out
C26_Witness ==
    /\ segpc = "done"
    /\ Len(sections) = 1
    /\ LET ls == SplitLines(markdown_text)
       IN  \E i \in 1..Len(ls) :
              /\ Strip(ls[i]) = <<>>
              /\ \E a \in ContentLines(ls), b \in ContentLines(ls) :
                    /\ a < i /\ i < b
                    /\ OwnerOf(ls, a) = OwnerOf(ls, b)
                    /\ OwnerOf(ls, a) # 0
    /\ Len(SplitLines(sections[1].content)) = 2

====
